---- MODULE Spec2Model ----
(***************************************************************************)
(* Model of src/app.py, the Streamlit S-parameter analyzer.                *)
(*                                                                         *)
(* The script is re-run from top to bottom on every user interaction (one  *)
(* "render cycle").  A cycle is modelled in three steps that follow the    *)
(* three blocks of the script: the CSV block (lines 24-57), the conversion *)
(* block (lines 59-78) and the try/except block around the network-file    *)
(* code (lines 83-132).  Widget values persist between cycles.             *)
(*                                                                         *)
(* Numbers are integers counted in ticks of 1e-7, so that formatting to    *)
(* six decimals (":.6f") is a real rounding.  Python indices are 0-based   *)
(* and kept so (idx_min, idx_max, i, j); TLA+ sequences are 1-based, and   *)
(* the translation is made where a sequence is read.                       *)
(***************************************************************************)
EXTENDS Integers, Sequences, FiniteSets, TLC

VARIABLES
    upload,      \* uploaded_file: what the st.file_uploader holds (line 13)
    scaleCsv,    \* st.radio "Select scale:" of the CSV block (line 33)
    selCsv,      \* st.multiselect of the CSV block (line 36); Default = untouched
    convert,     \* st.checkbox "Convert CSV to dummy .s2p" (line 60)
    scaleNet,    \* st.radio with key "touchstone_scale" (line 108)
    selNet,      \* st.multiselect of the network block (line 101); Default = untouched
    slider,      \* st.slider value (line 90); Default = untouched
    pc,          \* position of the running cycle: idle, csv, convert, network
    target,      \* what uploaded_file names when line 84 is reached
    ran,         \* the blocks of the script this cycle has gone through, in order
    csvChart,    \* the chart drawn at line 57 in this cycle
    netChart,    \* the chart drawn at line 130 in this cycle
    message,     \* the st.error of line 132 in this cycle
    crash,       \* an exception that left the script uncaught in this cycle
    parsedOn,    \* what rf.Network was called on in this cycle
    synth,       \* content of the temp file written in this cycle
    net,         \* the Network object parsed in this cycle
    idx,         \* <<idx_min, idx_max>> resolved in this cycle (lines 96-97)
    fig,         \* the traces added to the go.Figure of line 111
    tempCount    \* temp files present on disk

vars == <<upload, scaleCsv, selCsv, convert, scaleNet, selNet, slider, pc, target, ran,
          csvChart, netChart, message, crash, parsedOn, synth, net, idx, fig, tempCount>>

-----------------------------------------------------------------------------
(* Bounds of the model *)

MaxRows == 2      \* data rows of an uploaded CSV
MaxDep == 3       \* dependent columns of an uploaded CSV
MaxFreq == 3      \* frequency points of an uploaded network lie on 1..MaxFreq GHz
MaxSel == 1       \* length of a selection the user makes in a multiselect
MaxTemp == 2      \* conversions followed before the session is left

(* Program constants *)

MaxPorts == 4     \* .s1p .. .s4p
Decimals == 6     \* ":.6f"

Unit == 10 * (10 ^ Decimals)    \* ticks in 1.0: one digit more than is written
Half == Unit \div 2

\* a multiselect or slider the user has not touched, and one set to value
Default == [set |-> FALSE, value |-> <<>>]
UserSet(value) == [set |-> TRUE, value |-> value]
None == "none"

\* IEEE special values, as integers no magnitude or dB value of the model reaches
NegInf == -(2 * (10 ^ 9))
NaN == NegInf - 1

-----------------------------------------------------------------------------
(* Generic helpers *)

Abs(n) == IF n < 0 THEN -n ELSE n

Min(a, b) == IF a < b THEN a ELSE b

Max(a, b) == IF a > b THEN a ELSE b

RECURSIVE Gcd(_, _)
Gcd(a, b) == IF b = 0 THEN a ELSE Gcd(b, a % b)

Isqrt(n) == CHOOSE r \in 0..n : r * r <= n /\ (r + 1) * (r + 1) > n

\* Python's seq[a:b] for 0 <= a and 0 <= b
PySlice(seq, a, b) == [k \in 1..Max(0, Min(b, Len(seq)) - a) |-> seq[a + k]]

-----------------------------------------------------------------------------
(* Numbers *)

Complex(re, im) == [re |-> re, im |-> im]

\* mags * np.exp(1j*np.deg2rad(phases)) with phases all zero: exp(0j) = 1+0j
ZeroPhase(mag) == Complex(mag, 0)

\* np.abs of a complex number; exact for the multiples of Pythagorean triples
\* and the axis-aligned values the model draws
ComplexAbs(z) ==
    LET g == Gcd(Abs(z.re), Abs(z.im))
    IN  IF g = 0 THEN 0
        ELSE g * Isqrt((z.re \div g) * (z.re \div g) + (z.im \div g) * (z.im \div g))

\* np.log10 scaled by 20, in hundredths of a dB, rounded; the values the model
\* draws are tabulated.  log10(0) is -inf and log10 of a negative number is nan
\* (numpy warns and goes on).
Log10Table ==
    [m \in {Unit, Half, Unit \div 4, Unit \div 10, Unit \div 3, 10 * (Unit \div 30)} |->
        CASE m = Unit -> 0
          [] m = Half -> -602
          [] m = Unit \div 4 -> -1204
          [] m = Unit \div 10 -> -2000
          [] OTHER -> -954]

Db(m) ==
    IF m = 0 THEN NegInf
    ELSE IF m < 0 THEN NaN
    ELSE Log10Table[m]

\* np.abs and 20*np.log10 of an array, element by element
AbsAll(seq) == [k \in 1..Len(seq) |-> ComplexAbs(seq[k])]

DbAll(seq) == [k \in 1..Len(seq) |-> Db(seq[k])]

\* f"{v:.6f}": v rounded to six decimals (the model draws no value that lies
\* halfway between two six-decimal numbers)
Fmt6(v) ==
    LET q == Abs(v) \div 10
        r == Abs(v) % 10
        n == IF r >= 5 THEN q + 1 ELSE q
    IN  IF v < 0 THEN -(10 * n) ELSE 10 * n

-----------------------------------------------------------------------------
(* Uploaded files *)

\* A Network object: f in ticks of GHz (net.f / 1e9), s[k][i][j] the
\* S-parameter from port j to port i at point k (all 1-based here)
Network(nports, f, s) == [nports |-> nports, f |-> f, s |-> s]

NoNet == Network(0, <<>>, <<>>)

\* what the uploader holds: the kind the name's extension gives, whether the
\* reader of that kind accepts the bytes, and what it reads from them
File(kind, readable, columns, data, content) ==
    [kind |-> kind, readable |-> readable, columns |-> columns, data |-> data,
     content |-> content]

NoFile == File(None, FALSE, <<>>, <<>>, NoNet)

ColumnNames == <<"freq_ghz", "S11", "S21", "S31", "S41", "S51">>

\* the magnitudes an uploaded CSV holds
CellValues == <<Half, Unit \div 4, Unit \div 10, Unit \div 3, 0, Unit>>

\* A CSV with rows data rows and 1 + dep columns; column 0 is 1, 2, .. GHz and
\* the cell of row r and dependent column c is drawn from CellValues by seed.
CsvFile(rows, dep, seed) ==
    File("csv", TRUE, SubSeq(ColumnNames, 1, 1 + dep),
         [r \in 1..rows |->
            [c \in 1..(1 + dep) |->
               IF c = 1 THEN r * Unit
               ELSE CellValues[((seed + r + 2 * c) % Len(CellValues)) + 1]]],
         NoNet)

\* an empty upload named *.csv: pd.read_csv raises EmptyDataError
EmptyCsv == File("csv", FALSE, <<>>, <<>>, NoNet)

CsvUploads ==
    {CsvFile(rows, dep, seed) : rows \in 0..MaxRows, dep \in 0..MaxDep, seed \in 0..1}
        \cup {EmptyCsv}

\* the complex entries an uploaded Touchstone file holds
Entries ==
    <<Complex(3 * (Unit \div 10), 4 * (Unit \div 10)), Complex(-Unit, 0),
      Complex(0, 0), Complex(0, -(Unit \div 4)), Complex(Unit \div 10, 0)>>

RECURSIVE SortedSeq(_)
SortedSeq(S) ==
    IF S = {} THEN <<>>
    ELSE LET m == CHOOSE x \in S : \A y \in S : x <= y
         IN  <<m>> \o SortedSeq(S \ {m})

SampleNetwork(nports, points) ==
    Network(nports,
            [k \in 1..Cardinality(points) |-> SortedSeq(points)[k] * Unit],
            [k \in 1..Cardinality(points) |->
               [i \in 1..nports |->
                  [j \in 1..nports |-> Entries[((k + 2 * i + j) % Len(Entries)) + 1]]]])

\* A .sNp upload the parser accepts, holding the network content
TouchstoneFile(nports, points) ==
    File("touchstone", TRUE, <<>>, <<>>, SampleNetwork(nports, points))

\* A .sNp upload the parser rejects
BadTouchstone == File("touchstone", FALSE, <<>>, <<>>, NoNet)

TouchstoneUploads ==
    {TouchstoneFile(n, P) : n \in 1..MaxPorts, P \in (SUBSET (1..MaxFreq)) \ {{}}}
        \cup {BadTouchstone}

Uploads == CsvUploads \cup TouchstoneUploads

-----------------------------------------------------------------------------
(* The network block: window resolution and the trace loop *)

DigitChars == <<"0", "1", "2", "3", "4", "5", "6", "7", "8", "9">>

\* int(c) for a digit character
IntOf(c) == (CHOOSE d \in 1..Len(DigitChars) : DigitChars[d] = c) - 1

\* f"S{a}{b}": a selector is the sequence of its three characters
Selector(a, b) == <<"S", DigitChars[a + 1], DigitChars[b + 1]>>

\* options = [f"S{i+1}{j+1}" for i in range(n_ports) for j in range(n_ports)]
Options(n_ports) ==
    [k \in 1..(n_ports * n_ports) |->
        Selector(((k - 1) \div n_ports) + 1, ((k - 1) % n_ports) + 1)]

\* a slip in the tie-break: the last least element
ArgMinLast(seq) ==
    (CHOOSE k \in 1..Len(seq) :
        /\ \A m \in 1..Len(seq) : seq[k] <= seq[m]
        /\ \A m \in (k + 1)..Len(seq) : seq[m] > seq[k]) - 1

\* np.argmin: the 0-based index of the first least element (seq is not empty)
ArgMin(seq) ==
    (CHOOSE k \in 1..Len(seq) :
        /\ \A m \in 1..Len(seq) : seq[k] <= seq[m]
        /\ \A m \in 1..(k - 1) : seq[m] > seq[k]) - 1

\* np.abs(net.f/1e9 - freq)
Distances(f, freq) == [k \in 1..Len(f) |-> Abs(f[k] - freq)]

\* idx_min = np.argmin(np.abs(net.f/1e9 - freq_min))
IdxMin(f, freq_min) == ArgMin(Distances(f, freq_min))

\* a slip in the upper bound: the matched point is left out of the slice
IdxMaxExclusive(f, freq_max) == ArgMin(Distances(f, freq_max))

\* idx_max = np.argmin(np.abs(net.f/1e9 - freq_max)) + 1
IdxMax(f, freq_max) == ArgMin(Distances(f, freq_max)) + 1

\* numpy's index p on an axis of size n: negative indices count from the end,
\* anything else outside the axis raises IndexError
AxisOk(p, n) == -n <= p /\ p < n

AxisPos(p, n) == IF p < 0 THEN p + n ELSE p

\* y of one trace: np.abs(net.s[idx_min:idx_max,i,j]), then 20*np.log10(y) for dB
TraceY(network, idx_min, idx_max, i, j, scale) ==
    LET column == [k \in 1..Len(network.s) |->
                     network.s[k][AxisPos(i, network.nports) + 1]
                                 [AxisPos(j, network.nports) + 1]]
        y == AbsAll(PySlice(column, idx_min, idx_max))
    IN  IF scale = "dB" THEN DbAll(y) ELSE y

\* for param in selected_params: ... fig.add_trace(...)
\* The loop stops at the first selector whose index numpy rejects.
RECURSIVE TraceLoop(_, _, _, _, _, _)
TraceLoop(network, idx_min, idx_max, params, scale, traces) ==
    IF params = <<>> THEN [error |-> None, fig |-> traces]
    ELSE LET param == Head(params)
             i == IntOf(param[2]) - 1
             j == IntOf(param[3]) - 1
         IN  IF ~(AxisOk(i, network.nports) /\ AxisOk(j, network.nports))
             THEN [error |-> "IndexError", fig |-> traces]
             ELSE TraceLoop(network, idx_min, idx_max, Tail(params), scale,
                            Append(traces, [name |-> param,
                                         x |-> PySlice(network.f, idx_min, idx_max),
                                         y |-> TraceY(network, idx_min, idx_max, i, j, scale)]))

NoChart == [drawn |-> FALSE, traces |-> <<>>, ylabel |-> None]

Chart(traces, ylabel) == [drawn |-> TRUE, traces |-> traces, ylabel |-> ylabel]

\* Lines 96-130 for a parsed network with at least one frequency point: the
\* window, the traces and, when the loop ends without an exception and
\* something is selected, the chart that is drawn.
Extract(network, freq_min, freq_max, params, scale) ==
    LET idx_min == IdxMin(network.f, freq_min)
        idx_max == IdxMax(network.f, freq_max)
        loop == TraceLoop(network, idx_min, idx_max, params, scale, <<>>)
    IN  [idx_min |-> idx_min,
         idx_max |-> idx_max,
         error |-> loop.error,
         fig |-> loop.fig,
         chart |-> IF params # <<>> /\ loop.error = None
                   THEN Chart(loop.fig,
                              IF scale = "dB" THEN "Magnitude |S| (dB)"
                              ELSE "Magnitude |S| (Linear)")
                   ELSE NoChart]

-----------------------------------------------------------------------------
(* The CSV block *)

\* y_cols = df.columns[1:]
YCols(df) == PySlice(df.columns, 1, Len(df.columns))

\* df[name]: the column called name
Column(df, name) ==
    LET c == CHOOSE k \in 1..Len(df.columns) : df.columns[k] = name
    IN  [r \in 1..Len(df.data) |-> df.data[r][c]]

\* the value of a multiselect the user has not touched is its default
Selected(sel, default) == IF sel.set THEN sel.value ELSE default

\* plot_df = df[selected_params].copy(); if dB: plot_df = 20 * np.log10(plot_df)
PlotDf(df, selected_params, scale_option) ==
    [k \in 1..Len(selected_params) |->
        IF scale_option = "dB" THEN DbAll(Column(df, selected_params[k]))
        ELSE Column(df, selected_params[k])]

\* fig = px.line(df, x=x_col, y=selected_params, ...): the chart is drawn from
\* df, not from plot_df; the y-axis title follows scale_option
CsvFigure(df, selected_params, scale_option) ==
    Chart([k \in 1..Len(selected_params) |->
              [name |-> selected_params[k],
               x |-> Column(df, df.columns[1]),
               y |-> Column(df, selected_params[k])]],
          IF scale_option = "dB" THEN "|S| (dB)" ELSE "|S| (linear)")

-----------------------------------------------------------------------------
(* The conversion block *)

Header == "# GHz S RI R 50"

NoSynth == [written |-> FALSE, header |-> None, rows |-> <<>>]

\* freq_hz[i]/1e9 with freq_hz = df.iloc[:,0].values * 1e9: the value stays in
\* GHz ticks; scaling a double by 1e9 and back moves it by far less than the
\* sixth decimal that is written
FreqGHz(v) == v

\* One row of the file (lines 73-76) from the row of the dataframe: the
\* frequency, s_complex[i,0] and s_complex[i,1] as real and imaginary part,
\* and four literal zeros
SynthRow(row) ==
    LET s0 == ZeroPhase(row[2])
        s1 == ZeroPhase(row[3])
    IN  <<Fmt6(FreqGHz(row[1])), Fmt6(s0.re), Fmt6(s0.im), Fmt6(s1.re), Fmt6(s1.im),
          0, 0, 0, 0>>

\* s_complex[i,0] and s_complex[i,1] exist: mags has at least two columns
RowIndexable(df) == AxisOk(0, Len(df.columns) - 1) /\ AxisOk(1, Len(df.columns) - 1)

\* Lines 62-76: the file as it is left on disk, and the exception that ended
\* the writing.  The row is formatted before it is written, so a row that
\* cannot be formatted leaves the header alone in the file.
Synthesize(df) ==
    IF Len(df.data) = 0 \/ RowIndexable(df)
    THEN [error |-> None,
          file |-> [written |-> TRUE, header |-> Header,
                    rows |-> [r \in 1..Len(df.data) |-> SynthRow(df.data[r])]]]
    ELSE [error |-> "IndexError",
          file |-> [written |-> TRUE, header |-> Header, rows |-> <<>>]]

-----------------------------------------------------------------------------
(* rf.Network(uploaded_file) *)

\* The synthetic file read as a 2-port Touchstone file in RI format: the
\* pairs of a row are S11, S21, S12, S22
ParseSynthetic(file) ==
    Network(2,
            [k \in 1..Len(file.rows) |-> file.rows[k][1]],
            [k \in 1..Len(file.rows) |->
               LET row == file.rows[k]
               IN  <<<<Complex(row[2], row[3]), Complex(row[6], row[7])>>,
                     <<Complex(row[4], row[5]), Complex(row[8], row[9])>>>>])

\* What the parser makes of what uploaded_file names at line 84: the upload
\* itself, or the temp file after line 78.  A CSV upload is no Touchstone file.
ParseNetwork(file, what, synthFile) ==
    IF what = "synthetic" THEN [error |-> None, net |-> ParseSynthetic(synthFile)]
    ELSE IF file.kind = "touchstone" /\ file.readable
         THEN [error |-> None, net |-> file.content]
         ELSE [error |-> "ParseError", net |-> NoNet]

-----------------------------------------------------------------------------
(* The session *)

Scales == {"Linear", "dB"}

Init ==
    /\ upload = NoFile
    /\ scaleCsv = "dB"
    /\ selCsv = Default
    /\ convert = FALSE
    /\ scaleNet = "dB"
    /\ selNet = Default
    /\ slider = Default
    /\ pc = "idle"
    /\ target = "upload"
    /\ ran = <<>>
    /\ csvChart = NoChart
    /\ netChart = NoChart
    /\ message = None
    /\ crash = None
    /\ parsedOn = None
    /\ synth = NoSynth
    /\ net = NoNet
    /\ idx = <<0, 0>>
    /\ fig = <<>>
    /\ tempCount = 0

\* Streamlit re-runs the script: nothing of the last cycle's output stays, and
\* line 24 sends a name ending in .csv into the CSV block first
Rerun(file) ==
    /\ pc' = IF file.kind = "csv" THEN "csv" ELSE "network"
    /\ target' = "upload"
    /\ ran' = <<>>
    /\ csvChart' = NoChart
    /\ netChart' = NoChart
    /\ message' = None
    /\ crash' = None
    /\ parsedOn' = None
    /\ synth' = NoSynth
    /\ net' = NoNet
    /\ idx' = <<0, 0>>
    /\ fig' = <<>>
    /\ UNCHANGED tempCount

\* the user acts between two cycles; the session is followed for MaxTemp conversions
Idle == pc = "idle" /\ tempCount < MaxTemp

\* the CSV widgets were on the page of the last cycle
CsvWidgetsShown == upload.kind = "csv" /\ upload.readable

\* the widgets of lines 90-108 were on the page of the last cycle
NetWidgetsShown == Len(net.f) > 0

\* sequences without repetition of at most MaxSel elements of seq
Selections(seq) ==
    {sel \in UNION {[1..n -> {seq[k] : k \in 1..Len(seq)}] : n \in 0..MaxSel} :
        \A a, b \in 1..Len(sel) : a # b => sel[a] # sel[b]}

\* The user puts a file into the uploader.  The multiselects and the slider
\* are made anew from the new file's columns, ports and range.
Upload(file) ==
    /\ Idle
    /\ upload' = file
    /\ selCsv' = Default /\ selNet' = Default /\ slider' = Default
    /\ UNCHANGED <<scaleCsv, convert, scaleNet>>
    /\ Rerun(file)

SetScaleCsv(scale) ==
    /\ Idle /\ CsvWidgetsShown
    /\ scale # scaleCsv
    /\ scaleCsv' = scale
    /\ UNCHANGED <<upload, selCsv, convert, scaleNet, selNet, slider>>
    /\ Rerun(upload)

SetSelCsv(sel) ==
    /\ Idle /\ CsvWidgetsShown
    /\ UserSet(sel) # selCsv
    /\ selCsv' = UserSet(sel)
    /\ UNCHANGED <<upload, scaleCsv, convert, scaleNet, selNet, slider>>
    /\ Rerun(upload)

\* The checkbox.  The network widgets are made anew: what they show depends
\* on which file is parsed.
ToggleConvert ==
    /\ Idle /\ CsvWidgetsShown
    /\ convert' = ~convert
    /\ selNet' = Default /\ slider' = Default
    /\ UNCHANGED <<upload, scaleCsv, selCsv, scaleNet>>
    /\ Rerun(upload)

SetScaleNet(scale) ==
    /\ Idle /\ NetWidgetsShown
    /\ scale # scaleNet
    /\ scaleNet' = scale
    /\ UNCHANGED <<upload, scaleCsv, selCsv, convert, selNet, slider>>
    /\ Rerun(upload)

SetSelNet(sel) ==
    /\ Idle /\ NetWidgetsShown
    /\ UserSet(sel) # selNet
    /\ selNet' = UserSet(sel)
    /\ UNCHANGED <<upload, scaleCsv, selCsv, convert, scaleNet, slider>>
    /\ Rerun(upload)

\* the slider lets the user pick freq_min <= freq_max between net.f[0] and net.f[-1]
SliderValues(f) ==
    IF f = <<>> THEN {}
    ELSE {w \in {<<lo * Half, hi * Half>> :
                    lo, hi \in (f[1] \div Half)..(f[Len(f)] \div Half)} : w[1] <= w[2]}

SetSlider(value) ==
    /\ Idle /\ NetWidgetsShown
    /\ UserSet(value) # slider
    /\ slider' = UserSet(value)
    /\ UNCHANGED <<upload, scaleCsv, selCsv, convert, scaleNet, selNet>>
    /\ Rerun(upload)

-----------------------------------------------------------------------------
(* One render cycle *)

\* Lines 25-57.  pd.read_csv raises on an empty upload, outside any try: the
\* exception leaves the script.  Otherwise the chart is drawn when something
\* is selected, and the script goes on to the checkbox.
RunCsvBlock ==
    /\ pc = "csv"
    /\ ran' = Append(ran, "csv")
    /\ IF ~upload.readable
       THEN /\ crash' = "EmptyDataError"
            /\ pc' = "idle"
            /\ UNCHANGED csvChart
       ELSE LET selected_params == Selected(selCsv, YCols(upload))
            IN  /\ csvChart' = IF selected_params # <<>>
                               THEN CsvFigure(upload, selected_params, scaleCsv)
                               ELSE NoChart
                /\ pc' = "convert"
                /\ UNCHANGED crash
    /\ UNCHANGED <<upload, scaleCsv, selCsv, convert, scaleNet, selNet, slider, target,
                   netChart, message, parsedOn, synth, net, idx, fig, tempCount>>

\* Lines 60-78.  With the box ticked a temp file is made (delete=False) and
\* written; an IndexError while a row is formatted leaves the script, and the
\* file stays.  Line 78 makes uploaded_file the temp file's name.  Nothing
\* removes the file.
RunConvertBlock ==
    /\ pc = "convert"
    /\ IF ~convert
       THEN /\ pc' = "network"
            /\ UNCHANGED <<target, synth, crash, tempCount>>
       ELSE LET out == Synthesize(upload)
            IN  /\ tempCount' = tempCount + 1
                /\ synth' = out.file
                /\ crash' = out.error
                /\ pc' = IF out.error = None THEN "network" ELSE "idle"
                /\ target' = IF out.error = None THEN "synthetic" ELSE target
    /\ UNCHANGED <<upload, scaleCsv, selCsv, convert, scaleNet, selNet, slider, ran,
                   csvChart, netChart, message, parsedOn, net, idx, fig>>

\* Lines 83-132, reached by every cycle the CSV code did not end.  Whatever is
\* raised inside the try is shown by st.error.
RunNetworkBlock ==
    /\ pc = "network"
    /\ ran' = Append(ran, "network")
    /\ parsedOn' = target
    /\ LET parsed == ParseNetwork(upload, target, synth)
       IN  IF parsed.error # None
           THEN /\ message' = parsed.error
                /\ UNCHANGED <<net, idx, fig, netChart>>
           ELSE IF Len(parsed.net.f) = 0
           THEN \* net.f[0] at line 87
                /\ message' = "IndexError"
                /\ net' = parsed.net
                /\ UNCHANGED <<idx, fig, netChart>>
           ELSE LET f == parsed.net.f
                    window == Selected(slider, <<f[1], f[Len(f)]>>)
                    selected_params ==
                        Selected(selNet, <<Options(parsed.net.nports)[1]>>)
                    out == Extract(parsed.net, window[1], window[2],
                                   selected_params, scaleNet)
                IN  /\ net' = parsed.net
                    /\ idx' = <<out.idx_min, out.idx_max>>
                    /\ fig' = out.fig
                    /\ message' = out.error
                    /\ netChart' = out.chart
    /\ pc' = "idle"
    /\ UNCHANGED <<upload, scaleCsv, selCsv, convert, scaleNet, selNet, slider, target,
                   csvChart, crash, synth, tempCount>>

Next ==
    \/ \E file \in Uploads : Upload(file)
    \/ \E scale \in Scales : SetScaleCsv(scale)
    \/ \E sel \in Selections(YCols(upload)) : SetSelCsv(sel)
    \/ ToggleConvert
    \/ \E scale \in Scales : SetScaleNet(scale)
    \/ \E sel \in Selections(Options(net.nports)) : SetSelNet(sel)
    \/ \E value \in SliderValues(net.f) : SetSlider(value)
    \/ RunCsvBlock
    \/ RunConvertBlock
    \/ RunNetworkBlock

Spec == Init /\ [][Next]_vars

-----------------------------------------------------------------------------
(* The extractor alone: lines 96-130 on any window and any selectors, not   *)
(* only those the slider and the multiselect offer                          *)

ExtractNetworks ==
    {TouchstoneFile(n, P) : n \in 1..MaxPorts, P \in (SUBSET (1..MaxFreq)) \ {{}}}

ExtractWindows == {<<a * Unit, b * Unit>> : a, b \in 0..(MaxFreq + 1)}

Labels == {Selector(a, b) : a, b \in 0..(MaxPorts + 1)}

ExtractSelections ==
    {<<>>} \cup {<<p>> : p \in Labels} \cup {<<Selector(1, 1), p>> : p \in Labels}

InitExtract ==
    /\ upload \in ExtractNetworks
    /\ scaleCsv = "dB"
    /\ selCsv = Default
    /\ convert = FALSE
    /\ scaleNet \in Scales
    /\ selNet \in {UserSet(sel) : sel \in ExtractSelections}
    /\ slider \in {UserSet(w) : w \in ExtractWindows}
    /\ pc = "extract"
    /\ target = "upload"
    /\ ran = <<>>
    /\ csvChart = NoChart
    /\ netChart = NoChart
    /\ message = None
    /\ crash = None
    /\ parsedOn = "upload"
    /\ synth = NoSynth
    /\ net = upload.content
    /\ idx = <<0, 0>>
    /\ fig = <<>>
    /\ tempCount = 0

ExtractCall ==
    /\ pc = "extract"
    /\ LET out == Extract(net, slider.value[1], slider.value[2], selNet.value, scaleNet)
       IN  /\ idx' = <<out.idx_min, out.idx_max>>
           /\ fig' = out.fig
           /\ message' = out.error
           /\ netChart' = out.chart
    /\ ran' = Append(ran, "network")
    /\ pc' = "idle"
    /\ UNCHANGED <<upload, scaleCsv, selCsv, convert, scaleNet, selNet, slider, target,
                   csvChart, crash, parsedOn, synth, net, tempCount>>

SpecExtract == InitExtract /\ [][ExtractCall]_vars

-----------------------------------------------------------------------------
(* Properties of a finished render cycle (specification Spec) *)

CycleDone == pc = "idle" /\ upload.kind # None

CsvRead == upload.kind = "csv" /\ upload.readable

\* C1: in every render cycle with an uploaded file exactly one path runs: a
\* .csv upload with the conversion box unticked goes through the CSV path only
\* and the network-file parser is never called on it; a .s1p-.s4p upload goes
\* through the network-file path only; the network-file path follows the CSV
\* path only when conversion was asked for, and then parses the synthetic file.
C1_ExactlyOnePathRuns ==
    CycleDone =>
        /\ (upload.kind = "csv" /\ ~convert => ran = <<"csv">> /\ parsedOn = None)
        /\ (upload.kind = "touchstone" => ran = <<"network">> /\ parsedOn = "upload")
        /\ (upload.kind = "csv" /\ parsedOn # None => convert /\ parsedOn = "synthetic")

\* C2: every error raised in a render cycle (CSV read, column interpretation,
\* synthesis, network-file parse, extraction) ends in the top-level handler
\* that shows a message: no exception leaves the script uncaught.
C2_NoErrorEscapes == CycleDone => crash = None

\* C3: every temp file a conversion creates is released on every exit path of
\* its render cycle, so no temp file is left when a cycle has ended.
C3_TempFilesReleased == CycleDone => tempCount = 0

\* C4: in the CSV path every plotted series carries the selected scale (dB:
\* 20*log10 of the column, element by element; Linear: the column itself) and
\* the y-axis label names the scale of the data that is plotted.
C4_ScaleAppliedToPlot ==
    CycleDone /\ csvChart.drawn =>
        LET selected_params == Selected(selCsv, YCols(upload))
        IN  /\ Len(csvChart.traces) = Len(selected_params)
            /\ \A k \in 1..Len(csvChart.traces) :
                  csvChart.traces[k].y = PlotDf(upload, selected_params, scaleCsv)[k]
            /\ csvChart.ylabel = (IF scaleCsv = "dB" THEN "|S| (dB)" ELSE "|S| (linear)")

\* C5: a conversion asked of a dataset with no dependent column fails with
\* InsufficientDataError, reported to the user, and with nothing else.
C5_NoDependentColumnReported ==
    CycleDone /\ CsvRead /\ convert /\ Len(upload.columns) = 1 =>
        message = "InsufficientDataError" /\ crash = None

\* C6: a dataset of fewer than two columns fails with MalformedInputError,
\* shown to the user: the cycle never ends without a column-layout error.
C6_FewerThanTwoColumnsReported ==
    CycleDone /\ CsvRead /\ Len(upload.columns) < 2 =>
        message = "MalformedInputError" \/ crash = "MalformedInputError"

\* a written number agrees with v to the sixth decimal
Written(field, v) == Abs(field - v) < 10

\* C10: for every dataset with at least one dependent column the synthesizer
\* writes a complete file: the header and one row of nine fields per frequency
\* point, the real slots taken from the first two dependent columns in file
\* order, the imaginary slots and the last four fields zero.
C10_CompleteSyntheticFile ==
    CycleDone /\ CsvRead /\ convert /\ Len(upload.columns) >= 2 =>
        /\ synth.written
        /\ synth.header = Header
        /\ Len(synth.rows) = Len(upload.data)
        /\ \A r \in 1..Len(synth.rows) :
              LET row == synth.rows[r]
                  src == upload.data[r]
              IN  /\ Len(row) = 9
                  /\ Written(row[1], src[1])
                  /\ Written(row[2], src[2])
                  /\ Len(src) >= 3 => Written(row[4], src[3])
                  /\ \A c \in {3, 5, 6, 7, 8, 9} : row[c] = 0

-----------------------------------------------------------------------------
(* Properties of the extractor (specification SpecExtract) *)

Extracted == pc = "idle" /\ "network" \in {ran[k] : k \in 1..Len(ran)}

WindowMin == slider.value[1]

WindowMax == slider.value[2]

\* both port digits of the selector lie in 1..n
InRange(param, n) == IntOf(param[2]) \in 1..n /\ IntOf(param[3]) \in 1..n

AllInRange == \A k \in 1..Len(selNet.value) : InRange(selNet.value[k], net.nports)

\* position p (counted from 1) is the lowest one of net.f nearest to freq
Nearest(p, freq) ==
    /\ p \in 1..Len(net.f)
    /\ \A m \in 1..Len(net.f) : Abs(net.f[p] - freq) <= Abs(net.f[m] - freq)
    /\ \A m \in 1..(p - 1) : Abs(net.f[m] - freq) > Abs(net.f[p] - freq)

\* the window is empty, or lies wholly below or wholly above the file's range
EmptyWindow == WindowMin > WindowMax

OutsideWindow ==
    /\ WindowMin <= WindowMax
    /\ WindowMax < net.f[1] \/ WindowMin > net.f[Len(net.f)]

InsideWindow ==
    net.f[1] <= WindowMin /\ WindowMin <= WindowMax /\ WindowMax <= net.f[Len(net.f)]

WindowLength(lo, hi) == IdxMax(net.f, hi) - IdxMin(net.f, lo)

\* C9: for ascending frequency points and a window inside the file's range,
\* each end resolves to the lowest index of least distance, the upper matched
\* point is included, every selector gets x and y of length idx_max - idx_min,
\* and no wider window inside the range gives a shorter result.
C9_WindowInsideRange ==
    Extracted /\ AllInRange /\ InsideWindow =>
        /\ Nearest(idx[1] + 1, WindowMin)
        /\ Nearest(idx[2], WindowMax)
        /\ message = None
        /\ Len(fig) = Len(selNet.value)
        /\ \A t \in 1..Len(fig) :
              /\ Len(fig[t].x) = idx[2] - idx[1]
              /\ Len(fig[t].y) = idx[2] - idx[1]
              /\ fig[t].x = SubSeq(net.f, idx[1] + 1, idx[2])
              /\ fig[t].x[Len(fig[t].x)] = net.f[idx[2]]
        /\ \A w \in ExtractWindows :
              /\ net.f[1] <= w[1] /\ w[1] <= WindowMin
              /\ WindowMax <= w[2] /\ w[2] <= net.f[Len(net.f)]
              => LET wider == Extract(net, w[1], w[2], selNet.value, scaleNet)
                 IN  /\ WindowLength(w[1], w[2]) >= idx[2] - idx[1]
                     /\ \A t \in 1..Len(wider.fig) :
                           Len(wider.fig[t].y) >= idx[2] - idx[1]

\* a window inside the range whose lower end is as near to one point as to the
\* next, with two selectors and more than one point returned
C9_Witness ==
    /\ Extracted /\ AllInRange /\ InsideWindow
    /\ Len(fig) = 2
    /\ Len(fig[1].y) >= 2
    /\ \E p \in 1..(Len(net.f) - 1) :
          Abs(net.f[p] - WindowMin) = Abs(net.f[p + 1] - WindowMin)

====
